---- MODULE Spec2Model ----
(***************************************************************************)
(* One invocation of the ride-data aggregation handler get_ride_data       *)
(* (src/src/main.rs): validate the request, query the source table once    *)
(* per comma-separated identifier, filter and accumulate the records,      *)
(* upsert every aggregate, return the aggregates.                          *)
(*                                                                         *)
(* Strings are sequences of one-character strings, so that split, parse    *)
(* and format are computed character by character as the code does.        *)
(* f64 values are integers counting tenths; every distance string of the   *)
(* model has at most one fractional digit, 0 or 5, and a small magnitude,  *)
(* so every f64 sum of the model is exact.                                 *)
(***************************************************************************)
EXTENDS Integers, Sequences, FiniteSets, TLC

VARIABLES
    payload,                      \* CustomEvent: imeis, input_ride_month
    ride_data,                    \* source table: identifier -> records
    ride_data_monthly_distance,   \* output table: <<imei, date>> -> total_distance
    pc,                           \* position of the handler
    imeis,                        \* Vec<&str> of line 48
    next_imei,                    \* index of the identifier the loop of line 50 is at
    imei_month_distance,          \* HashMap<(String, String), f64>
    iter_order,                   \* iteration order of the HashMap
    next_put,                     \* index in iter_order the loop of line 93 is at
    response,                     \* what the invocation returned
    query_log,                    \* queries sent to the source table
    put_log                       \* put_item requests sent to the output table

vars == <<payload, ride_data, ride_data_monthly_distance, pc, imeis, next_imei,
          imei_month_distance, iter_order, next_put, response, query_log, put_log>>

\* ------------------------------------------------------------------ bounds
MaxImeisLen == 4      \* longest `imeis` string of a request
MaxItems == 2         \* most records stored for identifier "1"

\* ----------------------------------------------------------------- strings
STR_trip == <<"t", "r", "i", "p">>
STR_NA == <<"N", "A">>

DigitChars == {"0", "1", "2", "3", "4", "5", "6", "7", "8", "9"}

DigitVal(c) ==
    CASE c = "0" -> 0 [] c = "1" -> 1 [] c = "2" -> 2 [] c = "3" -> 3
      [] c = "4" -> 4 [] c = "5" -> 5 [] c = "6" -> 6 [] c = "7" -> 7
      [] c = "8" -> 8 [] c = "9" -> 9

DigitChar(d) ==
    CASE d = 0 -> "0" [] d = 1 -> "1" [] d = 2 -> "2" [] d = 3 -> "3"
      [] d = 4 -> "4" [] d = 5 -> "5" [] d = 6 -> "6" [] d = 7 -> "7"
      [] d = 8 -> "8" [] d = 9 -> "9"

AllDigits(s) == \A i \in 1..Len(s) : s[i] \in DigitChars

\* value of a digit string, most significant digit first
RECURSIVE DigitsValue(_)
DigitsValue(s) ==
    IF s = <<>> THEN 0
    ELSE 10 * DigitsValue(SubSeq(s, 1, Len(s) - 1)) + DigitVal(s[Len(s)])

\* decimal digits of a natural number
RECURSIVE NatToStr(_)
NatToStr(n) ==
    IF n < 10 THEN <<DigitChar(n)>>
    ELSE Append(NatToStr(n \div 10), DigitChar(n % 10))

\* str::split(sep): the pieces between separators, empty pieces kept
RECURSIVE Split(_, _)
Split(s, sep) ==
    IF \A i \in 1..Len(s) : s[i] # sep THEN <<s>>
    ELSE LET i == CHOOSE k \in 1..Len(s) :
                      s[k] = sep /\ \A j \in 1..(k - 1) : s[j] # sep
         IN  <<SubSeq(s, 1, i - 1)>> \o Split(SubSeq(s, i + 1, Len(s)), sep)

None == [some |-> FALSE, val |-> <<>>]
Some(v) == [some |-> TRUE, val |-> v]

\* str::parse::<u64>() and ::<u32>(): an optional '+', then one or more digits
ParseUnsigned(s) ==
    LET body == IF s # <<>> /\ s[1] = "+" THEN Tail(s) ELSE s
    IN  IF body # <<>> /\ AllDigits(body) THEN Some(DigitsValue(body)) ELSE None

\* str::parse::<f64>() on plain decimal notation, in tenths: an optional sign,
\* digits, and at most one fractional digit after a '.'
ParseF64(s) ==
    LET neg == s # <<>> /\ s[1] = "-"
        body == IF s # <<>> /\ s[1] \in {"+", "-"} THEN Tail(s) ELSE s
        parts == Split(body, ".")
        int == parts[1]
        frac == IF Len(parts) = 2 THEN parts[2] ELSE <<>>
        ok == /\ Len(parts) <= 2
              /\ AllDigits(int) /\ AllDigits(frac)
              /\ Len(int) + Len(frac) >= 1
              /\ Len(frac) <= 1
        mag == 10 * DigitsValue(int) + (IF frac = <<>> THEN 0 ELSE DigitVal(frac[1]))
    IN  IF ok THEN Some(IF neg THEN 0 - mag ELSE mag) ELSE None

\* f64::to_string() of a value given in tenths
F64ToString(v) ==
    LET mag == IF v < 0 THEN 0 - v ELSE v
        digits == NatToStr(mag \div 10) \o
                  (IF mag % 10 = 0 THEN <<>> ELSE <<".", DigitChar(mag % 10)>>)
    IN  IF v < 0 THEN <<"-">> \o digits ELSE digits

\* ------------------------------------------------------- attribute values
\* AttributeValue: S(string), N(number as a string), M(map); Absent is a
\* HashMap::get that found nothing.
Absent == [t |-> "absent", v |-> <<>>]
AttrS(s) == [t |-> "S", v |-> s]
AttrN(s) == [t |-> "N", v |-> s]
\* the only key the code reads in a map is "ride_distance": v is its value
AttrM(ride_distance) == [t |-> "M", v |-> ride_distance]

\* item.get(name).and_then(|v| v.as_s().ok()), as_n and as_m alike
AsS(attr) == IF attr.t = "S" THEN Some(attr.v) ELSE None
AsN(attr) == IF attr.t = "N" THEN Some(attr.v) ELSE None
AsM(attr) == IF attr.t = "M" THEN Some(attr.v) ELSE None

UnwrapOr(opt, default) == IF opt.some THEN opt.val ELSE default

\* -------------------------------------------------------------- calendar
OffsetSeconds == 5 * 3600 + 1800
SecondsPerDay == 24 * 3600

\* the civil year and month of a day number counted from 1970-01-01
CivilFromDays(days) ==
    LET z == days + 719468
        era == z \div 146097
        doe == z - era * 146097
        yoe == (doe - doe \div 1460 + doe \div 36524 - doe \div 146096) \div 365
        doy == doe - (365 * yoe + yoe \div 4 - yoe \div 100)
        mp == (5 * doy + 2) \div 153
        m == IF mp < 10 THEN mp + 3 ELSE mp - 9
        y == yoe + era * 400 + (IF m <= 2 THEN 1 ELSE 0)
    IN  [year |-> y, month |-> m]

\* digits of n, zero-padded on the left to the width
RECURSIVE ZeroPad(_, _)
ZeroPad(s, width) == IF Len(s) >= width THEN s ELSE ZeroPad(<<"0">> \o s, width)

\* the date of a UTC timestamp at the fixed offset east of UTC
LocalDate(ride_start, offset) == CivilFromDays((ride_start + offset) \div SecondsPerDay)

\* datetime.format("%Y-%m") of the timestamp in UTC+5:30
RideMonth(ride_start) ==
    LET d == LocalDate(ride_start, OffsetSeconds)
    IN  ZeroPad(NatToStr(d.year), 4) \o <<"-">> \o ZeroPad(NatToStr(d.month), 2)

\* --------------------------------------------------------- record filter
Skip == [kind |-> "skip", key |-> <<>>, amount |-> 0]
Panic == [kind |-> "panic", key |-> <<>>, amount |-> 0]
Contribute(key, amount) == [kind |-> "add", key |-> key, amount |-> amount]

\* line 60: the type tag, "NA" when missing or not a string
RideType(item) == UnwrapOr(AsS(item.ride_type), STR_NA)

\* lines 64-65: the start timestamp, None where the code's unwrap() panics
RideStart(item) ==
    LET n == AsN(item.ride_start)
    IN  IF n.some THEN ParseUnsigned(n.val) ELSE None

\* the window without its upper end
YearAcceptedFrom2023(year) == year >= 2023

\* line 74
YearAccepted(year) == year = 2024 \/ year = 2023

\* lines 75-79: TRUE when the record passes the month filter
MonthMatches(ride_month, input_ride_month) ==
    input_ride_month.some => ride_month = input_ride_month.val

\* lines 80-83: the distance, None where one of the two unwrap()s panics
Distance(item) ==
    LET ride_stats_map == AsM(item.ride_stats)
        total_distance_str == IF ride_stats_map.some THEN AsS(ride_stats_map.val)
                              ELSE None
    IN  IF total_distance_str.some
        THEN Some(UnwrapOr(ParseF64(total_distance_str.val), 0))
        ELSE None

\* the loop body with a missing or unusable timestamp skipped, not fatal
ClassifySkippingNoTimestamp(imei, item, input_ride_month) ==
    IF RideType(item) # STR_trip THEN Skip
    ELSE LET ride_start == RideStart(item) IN
         IF ~ride_start.some THEN Skip
         ELSE LET ride_month == RideMonth(ride_start.val)
                  year == ParseUnsigned(Split(ride_month, "-")[1])
              IN  IF ~year.some THEN Panic
                  ELSE IF ~YearAccepted(year.val) THEN Skip
                  ELSE IF ~MonthMatches(ride_month, input_ride_month) THEN Skip
                  ELSE LET distance == Distance(item) IN
                       IF ~distance.some THEN Panic
                       ELSE Contribute(<<imei, ride_month>>, distance.val)

\* the loop body with the distance extracted before the year and month checks
ClassifyDistanceFirst(imei, item, input_ride_month) ==
    IF RideType(item) # STR_trip THEN Skip
    ELSE LET ride_start == RideStart(item)
             distance == Distance(item)
         IN
         IF ~ride_start.some \/ ~distance.some THEN Panic
         ELSE LET ride_month == RideMonth(ride_start.val)
                  year == ParseUnsigned(Split(ride_month, "-")[1])
              IN  IF ~year.some THEN Panic
                  ELSE IF ~YearAccepted(year.val) THEN Skip
                  ELSE IF ~MonthMatches(ride_month, input_ride_month) THEN Skip
                  ELSE Contribute(<<imei, ride_month>>, distance.val)

\* lines 60-87, the body of the loop over the items of one identifier: what
\* one record does to the invocation
Classify(imei, item, input_ride_month) ==
    IF RideType(item) # STR_trip THEN Skip
    ELSE LET ride_start == RideStart(item) IN
         IF ~ride_start.some THEN Panic
         ELSE LET ride_month == RideMonth(ride_start.val)
                  year == ParseUnsigned(Split(ride_month, "-")[1])
              IN  IF ~year.some THEN Panic
                  ELSE IF ~YearAccepted(year.val) THEN Skip
                  ELSE IF ~MonthMatches(ride_month, input_ride_month) THEN Skip
                  ELSE LET distance == Distance(item) IN
                       IF ~distance.some THEN Panic
                       ELSE Contribute(<<imei, ride_month>>, distance.val)

\* the accumulator with no entry made for a distance of 0.0
AddDistanceNonZero(map, key, distance) ==
    IF distance = 0 THEN map
    ELSE IF key \in DOMAIN map
    THEN [map EXCEPT ![key] = @ + distance]
    ELSE map @@ (key :> (0 + distance))

\* lines 84-86: entry(key).or_insert(0.0), then += distance
AddDistance(map, key, distance) ==
    IF key \in DOMAIN map
    THEN [map EXCEPT ![key] = @ + distance]
    ELSE map @@ (key :> (0 + distance))

\* lines 59-89: the loop over the items of one identifier, from item i on;
\* panicked is TRUE when a record's unwrap() ended the invocation
RECURSIVE ProcessItems(_, _, _, _, _)
ProcessItems(map, imei, items, i, input_ride_month) ==
    IF i > Len(items) THEN [panicked |-> FALSE, map |-> map]
    ELSE LET c == Classify(imei, items[i], input_ride_month) IN
         CASE c.kind = "panic" -> [panicked |-> TRUE, map |-> map]
           [] c.kind = "skip" -> ProcessItems(map, imei, items, i + 1, input_ride_month)
           [] c.kind = "add" ->
                ProcessItems(AddDistance(map, c.key, c.amount), imei, items, i + 1,
                             input_ride_month)

\* ----------------------------------------------------------------- inputs
STR_1 == <<"1">>
STR_11 == <<"1", "1">>
STR_2023_11 == <<"2", "0", "2", "3", "-", "1", "1">>
STR_2023_01 == <<"2", "0", "2", "3", "-", "0", "1">>
STR_2023_1 == <<"2", "0", "2", "3", "-", "1">>

\* every string of at most n characters over the alphabet
RECURSIVE StringsUpTo(_, _)
StringsUpTo(alphabet, n) ==
    IF n = 0 THEN {<<>>}
    ELSE LET shorter == StringsUpTo(alphabet, n - 1)
         IN  shorter \cup {Append(s, c) : s \in shorter, c \in alphabet}

\* requests: identifier lists naming "1", "11" and empty identifiers
ImeisStrings == StringsUpTo({"1", ","}, MaxImeisLen)
\* no filter, a month, a month no record of the model falls in, a malformed month
MonthFilters == {None, Some(STR_2023_11), Some(STR_2023_1)}

TS_2022_12_31_182959 == <<"1", "6", "7", "2", "5", "1", "1", "3", "9", "9">>
TS_2022_12_31_183000 == <<"1", "6", "7", "2", "5", "1", "1", "4", "0", "0">>
TS_2023_11_14_221320 == <<"1", "7", "0", "0", "0", "0", "0", "0", "0", "0">>
TS_2024_12_31_182959 == <<"1", "7", "3", "5", "6", "6", "9", "7", "9", "9">>
TS_2024_12_31_183000 == <<"1", "7", "3", "5", "6", "6", "9", "8", "0", "0">>

Item(ride_type, ride_start, ride_stats) ==
    [ride_type |-> ride_type, ride_start |-> ride_start, ride_stats |-> ride_stats]

Trip == AttrS(STR_trip)
Stats(distance) == AttrM(AttrS(distance))

\* the records of the model: each path of the filter, on both sides of the two
\* ends of the accepted years (UTC times are named; local time is 5:30 later)
Records ==
    { Item(Trip, AttrN(TS_2023_11_14_221320), Stats(<<"1", "2", ".", "5">>)),
      Item(Trip, AttrN(TS_2023_11_14_221320), AttrM(Absent)),
      Item(Trip, AttrN(TS_2022_12_31_183000), Stats(<<"x">>)),
      Item(Trip, AttrN(TS_2022_12_31_182959), Absent),
      Item(Trip, AttrN(TS_2024_12_31_182959), Absent),
      Item(Trip, AttrN(TS_2024_12_31_183000), Stats(<<"3">>)),
      Item(Trip, Absent, Stats(<<"3">>)),
      Item(AttrS(<<"T", "r", "i", "p">>), AttrN(TS_2023_11_14_221320), Stats(<<"3">>)),
      Item(Absent, AttrN(<<"1", "e", "9">>), Stats(<<"3">>)) }

RECURSIVE SeqsUpTo(_, _)
SeqsUpTo(S, n) ==
    IF n = 0 THEN {<<>>}
    ELSE LET shorter == SeqsUpTo(S, n - 1)
         IN  shorter \cup {Append(s, x) : s \in shorter, x \in S}

\* source tables: up to MaxItems records for "1", one record for "11"
Tables ==
    { (STR_1 :> a) @@
      (STR_11 :> <<Item(Trip, AttrN(TS_2023_11_14_221320), Stats(<<"3">>))>>) :
        a \in SeqsUpTo(Records, MaxItems) }

\* an aggregate an earlier invocation left in the output table
EarlierAggregates == (<<STR_1, STR_2023_11>> :> <<"9", "9">>)

\* --------------------------------------------------------------- handler
NoResponse == [kind |-> "none", error |-> "", output |-> <<>>]
\* Ok(json!({"error": "IMEI cannot be empty"}))
ErrorPayload == [kind |-> "error", error |-> "IMEI cannot be empty", output |-> <<>>]
\* Ok(json!(output))
Output(items) == [kind |-> "output", error |-> "", output |-> items]
\* Err(..) or a panic: the invocation fails
Fatal(cause) == [kind |-> "fatal", error |-> cause, output |-> <<>>]

EmptyMap == [k \in {} |-> 0]

\* the orders a HashMap of these keys can be iterated in
Orders(keys) ==
    {o \in [1..Cardinality(keys) -> keys] : \A i, j \in DOMAIN o : o[i] = o[j] => i = j}

\* lines 109-115
CustomOutput(key, total_distance) ==
    [imei |-> key[1], ride_month |-> key[2], total_distance |-> total_distance]

CollectOutput(map, order) == [i \in DOMAIN order |-> CustomOutput(order[i], map[order[i]])]

\* the validation left out
IsEmptyNever(s) == FALSE

\* line 38
IsEmpty(s) == Len(s) = 0

\* the list of identifiers with the empty ones dropped
ImeiListNonEmpty(s) == SelectSeq(Split(s, ","), LAMBDA imei : imei # <<>>)

\* line 48
ImeiList(s) == Split(s, ",")

\* resp.items of the query of lines 126-134, unwrap_or_default() of line 52
QueryItems(imei) == IF imei \in DOMAIN ride_data THEN ride_data[imei] ELSE <<>>

Init ==
    /\ payload \in [imeis : ImeisStrings, input_ride_month : MonthFilters]
    /\ ride_data \in Tables
    /\ ride_data_monthly_distance = EarlierAggregates
    /\ pc = "start"
    /\ imeis = <<>>
    /\ next_imei = 1
    /\ imei_month_distance = EmptyMap
    /\ iter_order = <<>>
    /\ next_put = 1
    /\ response = NoResponse
    /\ query_log = <<>>
    /\ put_log = <<>>

\* the invocation ends with this response
Return(r) ==
    /\ response' = r
    /\ pc' = "done"

\* lines 90-117 when the loop over the identifiers ends: the write loop starts,
\* or, with nothing to write, the output is returned
EndOfFetch(map) ==
    IF DOMAIN map = {}
    THEN /\ Return(Output(<<>>))
         /\ UNCHANGED iter_order
    ELSE /\ iter_order' \in Orders(DOMAIN map)
         /\ pc' = "write"
         /\ UNCHANGED response

\* lines 36-48: validation, client construction, the split of the list
Invoke ==
    /\ pc = "start"
    /\ IF IsEmpty(payload.imeis)
       THEN /\ Return(ErrorPayload)
            /\ UNCHANGED <<imeis, iter_order>>
       ELSE /\ imeis' = ImeiList(payload.imeis)
            /\ IF imeis' = <<>>
               THEN EndOfFetch(imei_month_distance)
               ELSE /\ pc' = "fetch"
                    /\ UNCHANGED <<response, iter_order>>
    /\ UNCHANGED <<payload, ride_data, ride_data_monthly_distance, next_imei,
                   imei_month_distance, next_put, query_log, put_log>>

\* lines 50-90 after the query of one identifier answered with these items
Fetched(items) ==
    LET r == ProcessItems(imei_month_distance, imeis[next_imei], items, 1,
                          payload.input_ride_month)
    IN  IF r.panicked
        THEN /\ Return(Fatal("panic"))
             /\ UNCHANGED <<imei_month_distance, next_imei, iter_order>>
        ELSE /\ imei_month_distance' = r.map
             /\ IF next_imei = Len(imeis)
                THEN /\ EndOfFetch(r.map)
                     /\ UNCHANGED next_imei
                ELSE /\ next_imei' = next_imei + 1
                     /\ UNCHANGED <<pc, response, iter_order>>

\* the query step with every aggregate written as soon as it is accumulated
QueryOkWriteThrough ==
    /\ pc = "fetch"
    /\ query_log' = Append(query_log, [imei |-> imeis[next_imei], ok |-> TRUE])
    /\ Fetched(QueryItems(imeis[next_imei]))
    /\ LET r == ProcessItems(imei_month_distance, imeis[next_imei],
                             QueryItems(imeis[next_imei]), 1, payload.input_ride_month)
       IN  ride_data_monthly_distance' =
               [k \in DOMAIN ride_data_monthly_distance \cup DOMAIN r.map |->
                   IF k \in DOMAIN r.map THEN F64ToString(r.map[k])
                   ELSE ride_data_monthly_distance[k]]
    /\ UNCHANGED <<payload, ride_data, imeis, next_put, put_log>>

\* lines 51-52, 59-90: the query of the next identifier succeeds
QueryOk ==
    /\ pc = "fetch"
    /\ query_log' = Append(query_log, [imei |-> imeis[next_imei], ok |-> TRUE])
    /\ Fetched(QueryItems(imeis[next_imei]))
    /\ UNCHANGED <<payload, ride_data, ride_data_monthly_distance, imeis, next_put,
                   put_log>>

\* a failed query taken for an empty answer
QueryFailsAsEmpty ==
    /\ pc = "fetch"
    /\ query_log' = Append(query_log, [imei |-> imeis[next_imei], ok |-> FALSE])
    /\ Fetched(<<>>)
    /\ UNCHANGED <<payload, ride_data, ride_data_monthly_distance, imeis, next_put,
                   put_log>>

\* lines 51, 53-56: the query of the next identifier fails
QueryFails ==
    /\ pc = "fetch"
    /\ query_log' = Append(query_log, [imei |-> imeis[next_imei], ok |-> FALSE])
    /\ Return(Fatal("query"))
    /\ UNCHANGED <<payload, ride_data, ride_data_monthly_distance, imeis, next_imei,
                   imei_month_distance, iter_order, next_put, put_log>>

\* lines 94-99: the put_item request of the aggregate the write loop is at
PutRequest ==
    LET key == iter_order[next_put]
    IN  [imei |-> key[1], date |-> key[2],
         total_distance |-> F64ToString(imei_month_distance[key])]

\* lines 93-117: the upsert succeeds; after the last one the output is returned
PutItemOk ==
    /\ pc = "write"
    /\ put_log' = Append(put_log, [item |-> PutRequest, ok |-> TRUE])
    /\ ride_data_monthly_distance' =
           [k \in DOMAIN ride_data_monthly_distance \cup {iter_order[next_put]} |->
               IF k = iter_order[next_put] THEN PutRequest.total_distance
               ELSE ride_data_monthly_distance[k]]
    /\ IF next_put = Len(iter_order)
       THEN /\ Return(Output(CollectOutput(imei_month_distance, iter_order)))
            /\ UNCHANGED next_put
       ELSE /\ next_put' = next_put + 1
            /\ UNCHANGED <<pc, response>>
    /\ UNCHANGED <<payload, ride_data, imeis, next_imei, imei_month_distance,
                   iter_order, query_log>>

\* a failed upsert logged and the write loop carried on
PutItemFailsContinues ==
    /\ pc = "write"
    /\ put_log' = Append(put_log, [item |-> PutRequest, ok |-> FALSE])
    /\ IF next_put = Len(iter_order)
       THEN /\ Return(Output(CollectOutput(imei_month_distance, iter_order)))
            /\ UNCHANGED next_put
       ELSE /\ next_put' = next_put + 1
            /\ UNCHANGED <<pc, response>>
    /\ UNCHANGED <<payload, ride_data, ride_data_monthly_distance, imeis, next_imei,
                   imei_month_distance, iter_order, query_log>>

\* line 100: the upsert fails and `?` returns the error
PutItemFails ==
    /\ pc = "write"
    /\ put_log' = Append(put_log, [item |-> PutRequest, ok |-> FALSE])
    /\ Return(Fatal("put"))
    /\ UNCHANGED <<payload, ride_data, ride_data_monthly_distance, imeis, next_imei,
                   imei_month_distance, iter_order, next_put, query_log>>

Next == Invoke \/ QueryOk \/ QueryFails \/ PutItemOk \/ PutItemFails

Spec == Init /\ [][Next]_vars

\* ============================================================== properties
\* What the properties say of a record, read off the record itself: local
\* months are written out by hand for the timestamps of the model, distances
\* for its distance strings.
STR_2022_12 == <<"2", "0", "2", "2", "-", "1", "2">>
STR_2024_12 == <<"2", "0", "2", "4", "-", "1", "2">>
STR_2025_01 == <<"2", "0", "2", "5", "-", "0", "1">>

\* "YYYY-MM" for the years 2023 and 2024
AcceptedMonths ==
    { <<"2", "0", "2", y, "-">> \o mm :
        y \in {"3", "4"},
        mm \in { <<"0", d>> : d \in DigitChars \ {"0"} } \cup
               { <<"1", "0">>, <<"1", "1">>, <<"1", "2">> } }

HasTimestamp(r) ==
    r.ride_start \in { AttrN(TS_2022_12_31_182959), AttrN(TS_2022_12_31_183000),
                       AttrN(TS_2023_11_14_221320), AttrN(TS_2024_12_31_182959),
                       AttrN(TS_2024_12_31_183000) }

\* the month of the record's start in UTC+5:30
LocalMonth(r) ==
    CASE r.ride_start = AttrN(TS_2022_12_31_182959) -> STR_2022_12
      [] r.ride_start = AttrN(TS_2022_12_31_183000) -> STR_2023_01
      [] r.ride_start = AttrN(TS_2023_11_14_221320) -> STR_2023_11
      [] r.ride_start = AttrN(TS_2024_12_31_182959) -> STR_2024_12
      [] r.ride_start = AttrN(TS_2024_12_31_183000) -> STR_2025_01
      [] OTHER -> <<>>

IsTripRecord(r) == r.ride_type = AttrS(STR_trip)

\* the record passes steps a, d and e of the filter
PassesFilters(r) ==
    /\ IsTripRecord(r)
    /\ HasTimestamp(r)
    /\ LocalMonth(r) \in AcceptedMonths
    /\ payload.input_ride_month.some => LocalMonth(r) = payload.input_ride_month.val

HasDistance(r) == r.ride_stats.t = "M" /\ r.ride_stats.v.t = "S"

\* tenths the record's distance string stands for, 0 when it is no number
DistanceOf(r) ==
    CASE r.ride_stats = Stats(<<"1", "2", ".", "5">>) -> 125
      [] r.ride_stats = Stats(<<"3">>) -> 30
      [] OTHER -> 0

\* the records stored for an identifier, in the order the table returns them
StoredRecords(imei) == IF imei \in DOMAIN ride_data THEN ride_data[imei] ELSE <<>>

\* the identifiers whose query succeeded so far
QueriedImeis == {query_log[i].imei : i \in {j \in DOMAIN query_log : query_log[j].ok}}

\* the records the invocation has fetched so far, each with its identifier
FetchedRecords ==
    UNION { { <<imei, StoredRecords(imei)[i]>> : i \in DOMAIN StoredRecords(imei) } :
            imei \in QueriedImeis }

\* the key of a result item
ItemKey(item) == <<item.imei, item.ride_month>>

\* exact sum of the distances of the records among records[i..] that pass the
\* filters and fall in the month
RECURSIVE SumQualifying(_, _, _)
SumQualifying(records, month, i) ==
    IF i > Len(records) THEN 0
    ELSE (IF PassesFilters(records[i]) /\ LocalMonth(records[i]) = month
          THEN DistanceOf(records[i]) ELSE 0)
         + SumQualifying(records, month, i + 1)

\* C1: a request with an empty `imeis` string is answered with the payload
\* {"error": "IMEI cannot be empty"}, and no query and no upsert is ever sent
\* for it, whatever its month filter.
C1_EmptyImeisRejected ==
    payload.imeis = <<>> =>
        /\ query_log = <<>>
        /\ put_log = <<>>
        /\ ride_data_monthly_distance = EarlierAggregates
        /\ pc = "done" => response = ErrorPayload

C1_Witness ==
    /\ pc = "done"
    /\ payload.imeis = <<>>
    /\ payload.input_ride_month.some
    /\ response.kind = "error"

\* C2: in every returned output, each item's total_distance is the exact sum of
\* the distances of the records stored for the item's identifier that pass the
\* filters and fall in the item's month, each stored record counted once.
C2_TotalIsSumOfStoredRecords ==
    response.kind = "output" =>
        \A i \in DOMAIN response.output :
            response.output[i].total_distance =
                SumQualifying(StoredRecords(response.output[i].imei),
                              response.output[i].ride_month, 1)

\* C3: every accumulator entry comes from a fetched record whose type is
\* exactly "trip", whose local month lies in 2023 or 2024 and equals the month
\* filter when one is given; every result item's month lies in 2023 or 2024
\* and equals the filter when one is given, so that a malformed filter gives
\* an empty output.
C3_OnlyFilteredRecordsContribute ==
    /\ \A key \in DOMAIN imei_month_distance :
          \E f \in FetchedRecords :
              /\ f[1] = key[1]
              /\ PassesFilters(f[2])
              /\ LocalMonth(f[2]) = key[2]
    /\ response.kind = "output" =>
          /\ \A i \in DOMAIN response.output :
                /\ response.output[i].ride_month \in AcceptedMonths
                /\ payload.input_ride_month.some =>
                       response.output[i].ride_month = payload.input_ride_month.val
          /\ (payload.input_ride_month.some
              /\ payload.input_ride_month.val \notin AcceptedMonths) =>
                 response.output = <<>>

\* a filtered request answered with an aggregate, its table also holding a
\* record of another month, and a malformed filter answered with an output
C3_Witness ==
    /\ response.kind = "output"
    /\ payload.input_ride_month = Some(STR_2023_11)
    /\ response.output # <<>>
    /\ \E f \in FetchedRecords :
          IsTripRecord(f[2]) /\ LocalMonth(f[2]) = STR_2023_01 /\ HasDistance(f[2])

\* the keys a record that passes the filters and carries a distance string
\* was fetched for
ContributedKeys ==
    { <<f[1], LocalMonth(f[2])>> :
        f \in {g \in FetchedRecords : PassesFilters(g[2]) /\ HasDistance(g[2])} }

\* the keys one of whose fetched contributing records added more than 0.0
NonZeroKeys ==
    { <<f[1], LocalMonth(f[2])>> :
        f \in {g \in FetchedRecords :
                 PassesFilters(g[2]) /\ HasDistance(g[2]) /\ DistanceOf(g[2]) # 0} }

OutputKeys == {ItemKey(response.output[i]) : i \in DOMAIN response.output}
PutKeys == {<<put_log[i].item.imei, put_log[i].item.date>> : i \in DOMAIN put_log}

NoKeyTwice ==
    /\ \A i, j \in DOMAIN response.output :
          ItemKey(response.output[i]) = ItemKey(response.output[j]) => i = j
    /\ \A i, j \in DOMAIN put_log :
          (put_log[i].item.imei = put_log[j].item.imei
           /\ put_log[i].item.date = put_log[j].item.date) => i = j

\* C4 as claimed: an output holds exactly one item per key that received a
\* non-zero contribution, and neither an item nor an upsert for a key whose
\* contributing records all added 0.0.
C4_OneItemPerNonZeroKey ==
    response.kind = "output" =>
        /\ NoKeyTwice
        /\ OutputKeys = NonZeroKeys
        /\ PutKeys = NonZeroKeys

\* C4 as amended: an output holds exactly one item, and the invocation sent
\* exactly one upsert, per key that a record passing the filters contributed
\* to, a contribution of 0.0 included.
C4_OneItemPerContributedKey ==
    response.kind = "output" =>
        /\ NoKeyTwice
        /\ OutputKeys = ContributedKeys
        /\ PutKeys = ContributedKeys

\* an output with an item whose only contribution is an unparseable distance
C4_Witness ==
    /\ response.kind = "output"
    /\ \E i \in DOMAIN response.output :
          /\ response.output[i].total_distance = 0
          /\ ItemKey(response.output[i]) \notin NonZeroKeys
    /\ Len(response.output) >= 2

\* C5: a failed upsert is the last request the invocation sends: the
\* invocation ends with a fatal error and no output, and every upsert that
\* succeeded before it is still in the output table.
C5_PutFailureAborts ==
    /\ \A i \in DOMAIN put_log :
          ~put_log[i].ok =>
              /\ i = Len(put_log)
              /\ pc = "done"
              /\ response = Fatal("put")
    /\ \A i \in DOMAIN put_log :
          put_log[i].ok =>
              LET key == <<put_log[i].item.imei, put_log[i].item.date>>
              IN  /\ key \in DOMAIN ride_data_monthly_distance
                  /\ ride_data_monthly_distance[key] = put_log[i].item.total_distance

\* an upsert failed after another had succeeded, with one more left to send
C5_Witness ==
    /\ response = Fatal("put")
    /\ Len(put_log) = 2
    /\ Len(iter_order) = 3
    /\ ride_data_monthly_distance # EarlierAggregates

\* C6: one query is sent per identifier of the list, in the order of the list;
\* a failed query is the last one sent (no retry, no query of a later
\* identifier) and ends the invocation with a fatal error.
C6_QueryFailureAborts ==
    /\ Len(query_log) <= Len(imeis)
    /\ \A i \in DOMAIN query_log : query_log[i].imei = imeis[i]
    /\ \A i \in DOMAIN query_log :
          ~query_log[i].ok =>
              /\ i = Len(query_log)
              /\ pc = "done"
              /\ response = Fatal("query")

\* a query failed after one had succeeded, with a later identifier left
C6_Witness ==
    /\ response = Fatal("query")
    /\ Len(query_log) = 2
    /\ Len(imeis) >= 3

\* the fetched trip records that lack a required field
MissingTimestamp(r) == IsTripRecord(r) /\ r.ride_start = Absent
MissingDistance(r) == IsTripRecord(r) /\ HasTimestamp(r) /\ ~HasDistance(r)

\* C7 as claimed: an invocation that fetched a "trip" record lacking the start
\* timestamp, the statistics structure or the distance field ends with a fatal
\* error, whatever the record's month and the month filter.
C7_MalformedTripAlwaysFatal ==
    (pc = "done"
     /\ \E f \in FetchedRecords : MissingTimestamp(f[2]) \/ MissingDistance(f[2]))
        => response.kind = "fatal"

\* C7 as amended: an invocation that fetched a "trip" record lacking the start
\* timestamp, or a "trip" record that passes the year window and the month
\* filter and lacks the statistics structure or the distance field, ends with
\* a fatal error.
C7_MalformedTripFatalWhenReached ==
    (pc = "done"
     /\ \E f \in FetchedRecords :
           \/ MissingTimestamp(f[2])
           \/ MissingDistance(f[2]) /\ PassesFilters(f[2]))
        => response.kind = "fatal"

\* a panic that only a fetched record's missing timestamp can have caused
C7_Witness ==
    /\ response = Fatal("panic")
    /\ \E f \in FetchedRecords : MissingTimestamp(f[2])
    /\ \A f \in FetchedRecords :
          IsTripRecord(f[2]) =>
              \/ MissingTimestamp(f[2])
              \/ HasTimestamp(f[2]) /\ ~(MissingDistance(f[2]) /\ PassesFilters(f[2]))

\* the text of a list of identifiers joined by commas
RECURSIVE JoinImeis(_)
JoinImeis(list) ==
    IF Len(list) = 0 THEN <<>>
    ELSE IF Len(list) = 1 THEN list[1]
    ELSE list[1] \o <<",">> \o JoinImeis(Tail(list))

QueriedList == [i \in DOMAIN query_log |-> query_log[i].imei]

\* C8: when `imeis` is not empty and every query succeeds and returns no
\* record, the invocation answers with an empty output and sends no upsert,
\* having sent one query per comma-separated token, empty tokens included.
C8_NoRecordsGivesEmptyOutput ==
    (/\ pc = "done"
     /\ payload.imeis # <<>>
     /\ \A i \in DOMAIN query_log : query_log[i].ok
     /\ \A i \in DOMAIN imeis : StoredRecords(imeis[i]) = <<>>)
        => /\ response = Output(<<>>)
           /\ put_log = <<>>
           /\ ride_data_monthly_distance = EarlierAggregates
           /\ JoinImeis(QueriedList) = payload.imeis
           /\ \A i \in DOMAIN query_log : \A j \in DOMAIN query_log[i].imei :
                 query_log[i].imei[j] # ","

\* the request "1,,1" against a table without records for "1"
C8_Witness ==
    /\ pc = "done"
    /\ payload.imeis = <<"1", ",", ",", "1">>
    /\ ride_data[STR_1] = <<>>
    /\ response = Output(<<>>)
    /\ Len(query_log) = 3
    /\ query_log[2].imei = <<>>

\* the fetched records that end the invocation when the filter reaches them
FatalRecord(r) ==
    /\ IsTripRecord(r)
    /\ \/ ~HasTimestamp(r)
       \/ PassesFilters(r) /\ ~HasDistance(r)

\* C9: a record discarded at an earlier step of the filter never raises a later
\* step's fatal error: an invocation panics only when it fetched a "trip"
\* record without a usable timestamp, or a "trip" record inside the year window
\* and matching the month filter without a distance.
C9_DiscardedRecordsNeverFatal ==
    response = Fatal("panic") => \E f \in FetchedRecords : FatalRecord(f[2])

\* an output, although a record without type and with an unparseable
\* timestamp and a "trip" record outside the window without statistics were
\* fetched
C9_Witness ==
    /\ response.kind = "output"
    /\ \E f \in FetchedRecords : ~IsTripRecord(f[2]) /\ ~HasTimestamp(f[2])
    /\ \E f \in FetchedRecords :
          /\ IsTripRecord(f[2])
          /\ LocalMonth(f[2]) \notin AcceptedMonths
          /\ f[2].ride_stats = Absent

\* C10: no upsert is sent before every identifier of the list has been queried
\* with success, and an invocation that fails while fetching or filtering
\* leaves the output table as it was.
C10_NoWriteBeforeFetchEnds ==
    /\ put_log # <<>> =>
          /\ Len(query_log) = Len(imeis)
          /\ \A i \in DOMAIN query_log : query_log[i].ok
    /\ response \in {Fatal("query"), Fatal("panic")} =>
          /\ put_log = <<>>
          /\ ride_data_monthly_distance = EarlierAggregates

\* a record of the second identifier ends an invocation that holds an
\* aggregate of the first
C10_Witness ==
    /\ response = Fatal("panic")
    /\ Len(query_log) >= 2
    /\ DOMAIN imei_month_distance # {}
    /\ ride_data_monthly_distance = EarlierAggregates

====
